---- MODULE Spec2Model ----
(***************************************************************************)
(* Model of the impl-display-for-vec examples (src/src/bin/*.rs).          *)
(*                                                                         *)
(* A string is a sequence of characters (one-character TLA+ strings), so   *)
(* that formatting, upper-casing and concatenation are computed, not       *)
(* assumed.  A Vec<Album> lives in `heap` under an identifier; an Albums   *)
(* wrapper (`colls`) holds either the Vec itself (newtype.rs,              *)
(* ownership-problem.rs, dereferencing.rs) or a reference to a Vec owned   *)
(* by a User (referencing.rs).                                             *)
(*                                                                         *)
(* Three kinds of program are modelled: the five `main` functions, run     *)
(* statement by statement with the literals of the source; a client that   *)
(* calls the accessors and constructors of the examples and drops what it  *)
(* holds, in any order the borrow checker accepts ("client"); and a client *)
(* that makes one wrapper and then calls its Display::fmt and the Vec      *)
(* operations it reaches through Deref, any number of times ("formatter"). *)
(* The two clients are written over a bounded vec![..] literal.            *)
(***************************************************************************)
EXTENDS Integers, Sequences, FiniteSets, TLC

VARIABLES prog, pc, input, user, heap, colls, last, stdout

vars == <<prog, pc, input, user, heap, colls, last, stdout>>

(***************************************************************************)
(* Bounds of the model.                                                    *)
(***************************************************************************)
\* longest Vec<Album> the client constructs
MaxAlbums == 3
\* number of Albums wrappers the client creates in one run
MaxColls == 2
\* how many times in a row the client formats the same wrapper
MaxRepeat == 2

(***************************************************************************)
(* Strings and records.                                                    *)
(***************************************************************************)
NL == "\n"

\* struct Album { title, artist }
Album(title, artist) == [title |-> title, artist |-> artist]

\* the records the client builds its vectors from (an empty title, a
\* two-character artist; sequences over them include duplicates)
SampleAlbums == { Album(<<"a">>, <<"b">>), Album(<<>>, <<"c", "d">>) }

RECURSIVE SeqsUpTo(_, _)
SeqsUpTo(S, n) ==
    IF n = 0 THEN { <<>> }
    ELSE LET shorter == SeqsUpTo(S, n - 1)
         IN  shorter \cup { Append(s, x) : s \in { t \in shorter : Len(t) = n - 1 }, x \in S }

AlbumVecs == SeqsUpTo(SampleAlbums, MaxAlbums)

ClientNames == { <<"u">> }

(***************************************************************************)
(* fmt::Formatter over a writer that may fail.  `out` is what the writer   *)
(* has accepted, `calls` the number of write_str calls made so far, and    *)
(* `fails` the set of call numbers (from 0) at which the writer returns    *)
(* Err.  A formatting step yields the formatter and the fmt::Result.       *)
(***************************************************************************)
Formatter(fails) == [out |-> <<>>, calls |-> 0, fails |-> fails]

Step(f, res) == [f |-> f, res |-> res]

\* the write_str every `{}` of a String and every literal piece ends in
WriteStr(f, s) ==
    IF f.calls \in f.fails
    THEN Step([f EXCEPT !.calls = @ + 1], "Err")
    ELSE Step([f EXCEPT !.calls = @ + 1, !.out = @ \o s], "Ok")

\* the pieces of a format string are written in order; the first Err returns
RECURSIVE WritePieces(_, _)
WritePieces(f, pieces) ==
    IF pieces = <<>> THEN Step(f, "Ok")
    ELSE LET r == WriteStr(f, Head(pieces))
         IN  IF r.res = "Err" THEN r ELSE WritePieces(r.f, Tail(pieces))

\* impl fmt::Display for Album: write!(f, "{} ({})", self.title, self.artist)
AlbumFmt(album, f) ==
    WritePieces(f, << album.title, <<" ", "(">>, album.artist, <<")">> >>)

\* write! in place of writeln!: the album with no line terminator
WriteNoLn(f, album) == AlbumFmt(album, f)

\* writeln!(f, "{}", album): the album, then the line terminator
Writeln(f, album) ==
    LET r == AlbumFmt(album, f)
    IN  IF r.res = "Err" THEN r ELSE WriteStr(r.f, <<NL>>)

\* a fold that writes whatever the accumulated result is, as
\* result.and(writeln!(f, "{}", album)) would
FoldClosureEager(acc, album) ==
    LET r == Writeln(acc.f, album)
    IN  [f |-> r.f, res |-> IF acc.res = "Err" THEN "Err" ELSE r.res,
         visited |-> acc.visited + 1]

\* |result, album| result.and_then(|_| writeln!(f, "{}", album))
FoldClosure(acc, album) ==
    IF acc.res = "Ok"
    THEN LET r == Writeln(acc.f, album)
         IN  [f |-> r.f, res |-> r.res, visited |-> acc.visited + 1]
    ELSE [acc EXCEPT !.visited = @ + 1]

\* iter().fold(Ok(()), closure): every element is visited, in index order
RECURSIVE Fold(_, _, _)
Fold(albums, i, acc) ==
    IF i > Len(albums) THEN acc
    ELSE Fold(albums, i + 1, FoldClosure(acc, albums[i]))

\* impl fmt::Display for Albums, given the Vec the wrapper reads
AlbumsFmt(albums, f) == Fold(albums, 1, [f |-> f, res |-> "Ok", visited |-> 0])

(***************************************************************************)
(* The literals of the main functions.                                     *)
(***************************************************************************)
DanielName ==
    <<"D", "a", "n", "i", "e", "l">>

SgtPepperTitle ==
    <<"S", "g", "t", ".", " ", "P", "e", "p", "p", "e", "r", "'", "s", " ", "L", "o",
      "n", "e", "l", "y", " ", "H", "e", "a", "r", "t", "s", " ", "C", "l", "u", "b",
      " ", "B", "a", "n", "d">>

BeatlesArtist ==
    <<"T", "h", "e", " ", "B", "e", "a", "t", "l", "e", "s">>

DarkSideTitle ==
    <<"D", "a", "r", "k", " ", "S", "i", "d", "e", " ", "o", "f", " ", "t", "h", "e",
      " ", "M", "o", "o", "n">>

PinkFloydArtist ==
    <<"P", "i", "n", "k", " ", "F", "l", "o", "y", "d">>

\* vec![Album {..}, Album {..}]
DanielAlbums ==
    << Album(SgtPepperTitle, BeatlesArtist), Album(DarkSideTitle, PinkFloydArtist) >>

\* the literal piece of println!("{}'s albums:", daniel.name)
HeaderSuffix ==
    <<"'", "s", " ", "a", "l", "b", "u", "m", "s", ":">>

(***************************************************************************)
(* str::to_uppercase, on the characters the examples hold: an ASCII        *)
(* lower-case letter maps to its upper-case letter, every other character  *)
(* of the literals to itself.                                              *)
(***************************************************************************)
Lower ==
    <<"a", "b", "c", "d", "e", "f", "g", "h", "i", "j", "k", "l", "m",
      "n", "o", "p", "q", "r", "s", "t", "u", "v", "w", "x", "y", "z">>

Upper ==
    <<"A", "B", "C", "D", "E", "F", "G", "H", "I", "J", "K", "L", "M",
      "N", "O", "P", "Q", "R", "S", "T", "U", "V", "W", "X", "Y", "Z">>

ToUpperChar(ch) ==
    IF \E i \in 1..Len(Lower) : Lower[i] = ch
    THEN Upper[CHOOSE i \in 1..Len(Lower) : Lower[i] = ch]
    ELSE ch

\* the title printed as it is
ToUppercaseForgotten(s) == s

ToUppercase(s) == [i \in 1..Len(s) |-> ToUpperChar(s[i])]

(***************************************************************************)
(* println! to standard output: the formatted arguments, then one line     *)
(* terminator.  Standard output accepts every write.                       *)
(***************************************************************************)
\* println!("{}", x) for a string x
PrintlnStr(s) == s \o <<NL>>

\* println!("{}", album)
PrintlnAlbum(album) == AlbumFmt(album, Formatter({})).f.out \o <<NL>>

\* println!("{}", albums) for an Albums wrapper reading the Vec `albums`
PrintlnAlbums(albums) == AlbumsFmt(albums, Formatter({})).f.out \o <<NL>>

\* println!("{}'s albums:", name)
PrintlnHeader(name) == name \o HeaderSuffix \o <<NL>>

\* .iter().for_each(|album| println!("{}", album.title.to_uppercase()))
RECURSIVE ForEachUpper(_, _)
ForEachUpper(albums, i) ==
    IF i > Len(albums) THEN <<>>
    ELSE PrintlnStr(ToUppercase(albums[i].title)) \o ForEachUpper(albums, i + 1)

(***************************************************************************)
(* State.                                                                  *)
(*   prog    the program running: one of the five binaries, "client" or    *)
(*           "formatter"                                                   *)
(*   pc      for a binary, the source line of main's next statement; 0     *)
(*           once main has returned, and always 0 for the clients          *)
(*   input   the vec![..] literal the program's vectors are built from     *)
(*   user    the User value: st is "none" (the program has no User),       *)
(*           "live", "moved" (consumed by into_album) or "dropped"; albums *)
(*           is the field `albums`, a Vec (ownership-problem.rs,           *)
(*           referencing.rs) or an Albums wrapper (dereferencing.rs)       *)
(*   heap    the Vec<Album> allocations: "unused", "live" or "freed"       *)
(*   colls   the Albums wrappers: st is "none", "live" or "dropped"; vec   *)
(*           is the Vec the wrapper holds or refers to; src remembers the  *)
(*           record sequence the wrapper was made from                     *)
(*   last    what the last call returned, when it was fmt or a Vec         *)
(*           operation through Deref                                       *)
(*   stdout  the characters written to standard output                     *)
(***************************************************************************)
Clients == { "client", "formatter" }

CollIds == 1..MaxColls

\* one Vec for the User and one for each wrapper
VecIds == 1..(MaxColls + 1)

NoVec == [st |-> "unused", data |-> <<>>]

LiveVec(data) == [st |-> "live", data |-> data]

FreedVec == [st |-> "freed", data |-> <<>>]

NoColl == [st |-> "none", kind |-> "none", vec |-> 0, src |-> <<>>]

Coll(kind, vec, src) == [st |-> "live", kind |-> kind, vec |-> vec, src |-> src]

NoUser == [st |-> "none", name |-> <<>>, albums |-> [tag |-> "Vec", id |-> 0]]

\* User { name, albums } with albums: Vec<Album>
UserOfVec(name, v) == [st |-> "live", name |-> name, albums |-> [tag |-> "Vec", id |-> v]]

\* User { name, albums } with albums: Albums
UserOfAlbums(name, c) ==
    [st |-> "live", name |-> name, albums |-> [tag |-> "Albums", id |-> c]]

\* what a call other than fmt and Deref leaves in `last`
NoObs ==
    [op |-> "none", coll |-> 0, fails |-> {}, out |-> <<>>, res |-> "Ok",
     calls |-> 0, visited |-> 0, n |-> 0, prevOut |-> <<>>, prevRes |-> "Ok",
     len |-> 0, is_empty |-> TRUE, at |-> <<>>, iter |-> <<>>]

\* the wrappers that own their Vec; a Borrowed wrapper holds a reference
Owning(kind) == kind \in { "Owned", "Cloned", "Transparent" }

LiveColls == { c \in CollIds : colls[c].st = "live" }

\* the next wrapper and the next allocation
FreeColls == { c \in CollIds : colls[c].st = "none" }

FreeVecs == { v \in VecIds : heap[v].st = "unused" }

NextColl == CHOOSE c \in FreeColls : \A d \in FreeColls : c <= d

NextVec == CHOOSE v \in FreeVecs : \A w \in FreeVecs : v <= w

\* "client" makes up to MaxColls wrappers, "formatter" one
MayCreate ==
    \/ prog = "client" /\ FreeColls # {}
    \/ prog = "formatter" /\ FreeColls = CollIds

\* the Vec behind self.albums
UserVec == IF user.albums.tag = "Vec" THEN user.albums.id ELSE colls[user.albums.id].vec

UserData == heap[UserVec].data

\* the wrappers that borrow from the User: Albums<'a>(&'a Vec<Album>) made by
\* borrow_albums(&self) lives no longer than the borrow of self
Borrowers == { c \in LiveColls : colls[c].kind = "Borrowed" /\ colls[c].vec = UserVec }

\* without the lifetime (a raw pointer in the wrapper) nothing would tie them
CanMoveUserUnchecked == TRUE

\* a value can be moved or dropped only when no borrow of it is live
CanMoveUser == Borrowers = {}

(***************************************************************************)
(* The accessors of User and the constructors of Albums.                   *)
(***************************************************************************)
\* #[derive(Clone)] struct Album: both fields are cloned
CloneAlbum(a) == Album(a.title, a.artist)

\* Vec::clone: element by element, in order
CloneVec(s) == [i \in 1..Len(s) |-> CloneAlbum(s[i])]

\* an accessor taking &self would leave the User as it is
UserAfterIntoAlbumByRef == user

\* into_album(self): the User is moved into the call
UserAfterIntoAlbum == [user EXCEPT !.st = "moved"]

\* fn into_album(self) -> Albums { Albums(self.albums) }
IntoAlbum(c) ==
    /\ MayCreate /\ c = NextColl
    /\ user.st = "live"
    /\ CanMoveUser
    /\ colls' = [colls EXCEPT ![c] = Coll("Owned", UserVec, UserData)]
    /\ user' = UserAfterIntoAlbum
    /\ last' = NoObs
    /\ UNCHANGED <<prog, input, pc, heap, stdout>>

\* a wrapper sharing the User's Vec instead of holding a copy of it
GetAlbumsResultShared(v) == Coll("Cloned", UserVec, UserData)

\* Albums(self.albums.clone()): the wrapper holds the new Vec
GetAlbumsResult(v) == Coll("Cloned", v, UserData)

\* an accessor that takes the records out of the User (mem::take)
HeapAfterGetAlbumsTake(v) ==
    [heap EXCEPT ![v] = LiveVec(UserData), ![UserVec] = LiveVec(<<>>)]

\* self.albums.clone() allocates a new Vec and leaves self.albums alone
HeapAfterGetAlbums(v) == [heap EXCEPT ![v] = LiveVec(CloneVec(UserData))]

\* fn get_albums(&self) -> Albums { Albums(self.albums.clone()) }
GetAlbums(c) ==
    /\ MayCreate /\ c = NextColl
    /\ user.st = "live"
    /\ heap' = HeapAfterGetAlbums(NextVec)
    /\ colls' = [colls EXCEPT ![c] = GetAlbumsResult(NextVec)]
    /\ last' = NoObs
    /\ UNCHANGED <<prog, input, pc, user, stdout>>

\* fn borrow_albums(&self) -> Albums { Albums(&self.albums) }
BorrowAlbums(c) ==
    /\ MayCreate /\ c = NextColl
    /\ user.st = "live"
    /\ colls' = [colls EXCEPT ![c] = Coll("Borrowed", UserVec, UserData)]
    /\ last' = NoObs
    /\ UNCHANGED <<prog, input, pc, user, heap, stdout>>

\* Albums(vec![..]) of newtype.rs: the Vec is moved into the wrapper
NewOwned(c) ==
    /\ MayCreate /\ c = NextColl
    /\ heap' = [heap EXCEPT ![NextVec] = LiveVec(input)]
    /\ colls' = [colls EXCEPT ![c] = Coll("Owned", NextVec, input)]
    /\ last' = NoObs
    /\ UNCHANGED <<prog, input, pc, user, stdout>>

\* Albums(vec![..]) of dereferencing.rs, the wrapper that implements Deref
NewTransparent(c) ==
    /\ MayCreate /\ c = NextColl
    /\ heap' = [heap EXCEPT ![NextVec] = LiveVec(input)]
    /\ colls' = [colls EXCEPT ![c] = Coll("Transparent", NextVec, input)]
    /\ last' = NoObs
    /\ UNCHANGED <<prog, input, pc, user, stdout>>

\* a wrapper goes out of scope: one that owns its Vec frees it
DropColl(c) ==
    /\ prog \in Clients
    /\ colls[c].st = "live"
    /\ colls' = [colls EXCEPT ![c].st = "dropped"]
    /\ heap' = IF Owning(colls[c].kind)
               THEN [heap EXCEPT ![colls[c].vec] = FreedVec]
               ELSE heap
    /\ last' = NoObs
    /\ UNCHANGED <<prog, input, pc, user, stdout>>

\* the User goes out of scope: its Vec is freed
DropUser ==
    /\ prog \in Clients
    /\ user.st = "live"
    /\ CanMoveUser
    /\ user' = [user EXCEPT !.st = "dropped"]
    /\ heap' = [heap EXCEPT ![UserVec] = FreedVec]
    /\ last' = NoObs
    /\ UNCHANGED <<prog, input, pc, colls, stdout>>

(***************************************************************************)
(* Display and Deref of the wrappers.                                      *)
(***************************************************************************)
\* self.0: the Vec the wrapper holds (Albums(pub Vec<Album>)) or refers to
\* (Albums<'a>(pub &'a Vec<Album>))
Inner(c) == heap[colls[c].vec].data

\* a deref that loses the first record
DerefSkipFirst(c) == SubSeq(Inner(c), 2, Len(Inner(c)))

\* impl ops::Deref for Albums: fn deref(&self) -> &Vec<Album> { &self.0 }
Deref(c) == Inner(c)

\* the read-only operations of Vec reached through Deref; Vec indices start at 0
VecLen(v) == Len(v)

VecIsEmpty(v) == Len(v) = 0

VecIndex(v, i) == v[i + 1]

RECURSIVE VecIter(_, _)
VecIter(v, i) == IF i > Len(v) THEN <<>> ELSE <<v[i]>> \o VecIter(v, i + 1)

RECURSIVE Reverse(_)
Reverse(s) == IF s = <<>> THEN <<>> ELSE Append(Reverse(Tail(s)), Head(s))

\* a Transparent wrapper that iterates from the back: self.iter().rev()
DisplayFmtRev(c, f) ==
    IF colls[c].kind = "Transparent"
    THEN AlbumsFmt(Reverse(Deref(c)), f)
    ELSE AlbumsFmt(Inner(c), f)

\* Display::fmt of the wrapper: dereferencing.rs iterates self.iter() (through
\* Deref), the other three self.0.iter()
DisplayFmt(c, f) ==
    IF colls[c].kind = "Transparent"
    THEN AlbumsFmt(Deref(c), f)
    ELSE AlbumsFmt(Inner(c), f)

\* a fmt that takes the records out of the wrapper while writing them
HeapAfterFmtDrain(c) == [heap EXCEPT ![colls[c].vec].data = <<>>]

\* fn fmt(&self, ..): the wrapper is read through a shared reference
HeapAfterFmt(c) == heap

\* the writers the client formats into: one that never fails, and for each
\* write_str call of a complete rendering one that fails at that call
FailChoices(albums) ==
    { {} } \cup { {k} : k \in 0..(AlbumsFmt(albums, Formatter({})).f.calls - 1) }

\* format!-like use of Display::fmt on a live wrapper, into a fresh writer
Fmt(c, fails) ==
    /\ prog = "formatter"
    /\ colls[c].st = "live"
    /\ fails \in FailChoices(Inner(c))
    /\ LET r == DisplayFmt(c, Formatter(fails))
           again == last.op = "fmt" /\ last.coll = c /\ last.fails = fails
           n == IF again THEN last.n + 1 ELSE 1
       IN  /\ n <= MaxRepeat
           /\ last' = [NoObs EXCEPT !.op = "fmt", !.coll = c, !.fails = fails,
                                    !.out = r.f.out, !.res = r.res,
                                    !.calls = r.f.calls, !.visited = r.visited,
                                    !.n = n,
                                    !.prevOut = IF again THEN last.out ELSE <<>>,
                                    !.prevRes = IF again THEN last.res ELSE "Ok"]
    /\ heap' = HeapAfterFmt(c)
    /\ UNCHANGED <<prog, input, pc, user, colls, stdout>>

\* len(), is_empty(), [i] and iter() called on the wrapper itself
DerefRead(c) ==
    /\ prog = "formatter"
    /\ colls[c].st = "live"
    /\ colls[c].kind = "Transparent"
    /\ last' = [NoObs EXCEPT !.op = "deref", !.coll = c,
                             !.len = VecLen(Deref(c)),
                             !.is_empty = VecIsEmpty(Deref(c)),
                             !.at = [i \in 0..(VecLen(Deref(c)) - 1) |-> VecIndex(Deref(c), i)],
                             !.iter = VecIter(Deref(c), 1)]
    /\ UNCHANGED <<prog, input, pc, user, heap, colls, stdout>>

(***************************************************************************)
(* The main functions, one action per statement.  A wrapper made inside a  *)
(* println! is a temporary: it is dropped when the statement ends.         *)
(***************************************************************************)
\* preamble.rs: let album = Album { .. }
PreambleAlbum == Album(SgtPepperTitle, BeatlesArtist)

\* preamble.rs: println!("{}", album)
PreamblePrint ==
    /\ prog = "preamble" /\ pc = 20
    /\ stdout' = stdout \o PrintlnAlbum(PreambleAlbum)
    /\ pc' = 21
    /\ UNCHANGED <<prog, input, user, heap, colls, last>>

\* newtype.rs: println!("{}", albums)
NewtypePrint ==
    /\ prog = "newtype" /\ pc = 36
    /\ stdout' = stdout \o PrintlnAlbums(Inner(1))
    /\ pc' = 37
    /\ UNCHANGED <<prog, input, user, heap, colls, last>>

\* println!("{}'s albums:", daniel.name)
PrintHeader ==
    /\ \/ prog = "referencing" /\ pc = 50 /\ pc' = 51
       \/ prog = "ownership-problem" /\ pc = 55 /\ pc' = 56
       \/ prog = "ownership-problem" /\ pc = 58 /\ pc' = 59
       \/ prog = "dereferencing" /\ pc = 53 /\ pc' = 54
    /\ user.st = "live"
    /\ stdout' = stdout \o PrintlnHeader(user.name)
    /\ UNCHANGED <<prog, input, user, heap, colls, last>>

\* referencing.rs: println!("{}", daniel.borrow_albums())
ReferencingPrint ==
    /\ prog = "referencing" /\ pc = 51
    /\ user.st = "live"
    /\ stdout' = stdout \o PrintlnAlbums(UserData)
    /\ pc' = 52
    /\ UNCHANGED <<prog, input, user, heap, colls, last>>

\* ownership-problem.rs: println!("{}", daniel.get_albums())
OwnershipPrintCloned ==
    /\ prog = "ownership-problem" /\ pc = 56
    /\ user.st = "live"
    /\ stdout' = stdout \o PrintlnAlbums(CloneVec(UserData))
    /\ pc' = 58
    /\ UNCHANGED <<prog, input, user, heap, colls, last>>

\* ownership-problem.rs: println!("{}", daniel.into_album()); the wrapper
\* that took the Vec is dropped with the statement
OwnershipPrintInto ==
    /\ prog = "ownership-problem" /\ pc = 59
    /\ user.st = "live"
    /\ stdout' = stdout \o PrintlnAlbums(UserData)
    /\ user' = UserAfterIntoAlbum
    /\ heap' = [heap EXCEPT ![UserVec] = FreedVec]
    /\ pc' = 60
    /\ UNCHANGED <<prog, input, colls, last>>

\* dereferencing.rs: println!("{}", daniel.albums)
DereferencingPrint ==
    /\ prog = "dereferencing" /\ pc = 54
    /\ user.st = "live"
    /\ stdout' = stdout \o DisplayFmt(user.albums.id, Formatter({})).f.out \o <<NL>>
    /\ pc' = 55
    /\ UNCHANGED <<prog, input, user, heap, colls, last>>

\* dereferencing.rs: daniel.albums.iter().for_each(|album| println!(..))
DereferencingUpper ==
    /\ prog = "dereferencing" /\ pc = 55
    /\ user.st = "live"
    /\ stdout' = stdout \o ForEachUpper(Deref(user.albums.id), 1)
    /\ pc' = 59
    /\ UNCHANGED <<prog, input, user, heap, colls, last>>

\* the closing brace of main: the locals still held are dropped
Return ==
    /\ \/ prog = "preamble" /\ pc = 21
       \/ prog = "newtype" /\ pc = 37
       \/ prog = "referencing" /\ pc = 52
       \/ prog = "ownership-problem" /\ pc = 60
       \/ prog = "dereferencing" /\ pc = 59
    /\ pc' = 0
    /\ user' = IF user.st = "live" THEN [user EXCEPT !.st = "dropped"] ELSE user
    /\ colls' = [c \in CollIds |->
                   IF colls[c].st = "live" THEN [colls[c] EXCEPT !.st = "dropped"]
                   ELSE colls[c]]
    /\ heap' = [v \in VecIds |-> IF heap[v].st = "live" THEN FreedVec ELSE heap[v]]
    /\ UNCHANGED <<prog, input, last, stdout>>

(***************************************************************************)
(* Initial states and the next-state relation.                             *)
(***************************************************************************)
NoColls == [c \in CollIds |-> NoColl]

HeapOf(S) == [v \in VecIds |-> IF v = 1 THEN LiveVec(S) ELSE NoVec]

\* a client starts with a User holding a Vec built from its literal
InitClient ==
    /\ prog \in Clients /\ pc = 0
    /\ input \in AlbumVecs
    /\ \E name \in ClientNames : user = UserOfVec(name, 1)
    /\ heap = HeapOf(input)
    /\ colls = NoColls

\* the state of each main after its let statements
InitMain ==
    \/ /\ prog = "preamble" /\ pc = 20
       /\ input = <<PreambleAlbum>>
       /\ user = NoUser /\ heap = [v \in VecIds |-> NoVec] /\ colls = NoColls
    \/ /\ prog = "newtype" /\ pc = 36
       /\ input = DanielAlbums
       /\ user = NoUser /\ heap = HeapOf(input)
       /\ colls = [NoColls EXCEPT ![1] = Coll("Owned", 1, input)]
    \/ /\ prog = "referencing" /\ pc = 50
       /\ input = DanielAlbums
       /\ user = UserOfVec(DanielName, 1) /\ heap = HeapOf(input)
       /\ colls = NoColls
    \/ /\ prog = "ownership-problem" /\ pc = 55
       /\ input = DanielAlbums
       /\ user = UserOfVec(DanielName, 1) /\ heap = HeapOf(input)
       /\ colls = NoColls
    \/ /\ prog = "dereferencing" /\ pc = 53
       /\ input = DanielAlbums
       /\ user = UserOfAlbums(DanielName, 1) /\ heap = HeapOf(input)
       /\ colls = [NoColls EXCEPT ![1] = Coll("Transparent", 1, input)]

Init ==
    /\ InitClient \/ InitMain
    /\ last = NoObs
    /\ stdout = <<>>

Next ==
    \/ \E c \in CollIds : IntoAlbum(c)
    \/ \E c \in CollIds : GetAlbums(c)
    \/ \E c \in CollIds : BorrowAlbums(c)
    \/ \E c \in CollIds : NewOwned(c)
    \/ \E c \in CollIds : NewTransparent(c)
    \/ \E c \in CollIds : DropColl(c)
    \/ DropUser
    \/ \E c \in LiveColls : \E fails \in FailChoices(Inner(c)) : Fmt(c, fails)
    \/ \E c \in CollIds : DerefRead(c)
    \/ PreamblePrint
    \/ NewtypePrint
    \/ PrintHeader
    \/ ReferencingPrint
    \/ OwnershipPrintCloned
    \/ OwnershipPrintInto
    \/ DereferencingPrint
    \/ DereferencingUpper
    \/ Return

Spec == Init /\ [][Next]_vars

(***************************************************************************)
(* What the properties are stated against: the rendering of a record       *)
(* sequence written out directly, independently of the fold above.         *)
(***************************************************************************)
RenderOne(r) == r.title \o <<" ", "(">> \o r.artist \o <<")">>

RECURSIVE Rendering(_)
Rendering(S) ==
    IF S = <<>> THEN <<>>
    ELSE RenderOne(Head(S)) \o <<NL>> \o Rendering(Tail(S))

IsPrefix(p, s) == Len(p) <= Len(s) /\ SubSeq(s, 1, Len(p)) = p

\* what a wrapper renders to on a writer that never fails
Rendered(c) == DisplayFmt(c, Formatter({})).f

\* C1: Display::fmt on a wrapper over any record sequence S (empty, with
\* duplicates) writes exactly "{title} ({artist})" and a line terminator for
\* each record of S, in order, and returns Ok; for the empty S it writes nothing.
C1_RenderIsConcatenation ==
    (last.op = "fmt" /\ last.fails = {}) =>
        /\ last.out = Rendering(colls[last.coll].src)
        /\ last.res = "Ok"
        /\ (colls[last.coll].src = <<>> => last.out = <<>>)

\* a wrapper over a sequence with a duplicated record has been formatted
C1_Witness ==
    /\ last.op = "fmt" /\ last.fails = {}
    /\ Len(colls[last.coll].src) >= 2
    /\ colls[last.coll].src[1] = colls[last.coll].src[2]

\* C2: wrappers of the four kinds made from the same record sequence render to
\* the same string, however the sequence was acquired.
C2_SameRenderingAcrossKinds ==
    \A c \in LiveColls : \A d \in LiveColls :
        colls[c].src = colls[d].src => Rendered(c) = Rendered(d)

\* a Transparent wrapper and a Cloned one over the same two different
\* records are live
C2_Witness ==
    /\ \E c \in LiveColls : colls[c].kind = "Transparent"
    /\ \E c \in LiveColls : colls[c].kind = "Cloned"
    /\ Len(input) >= 2 /\ input[1] # input[2]

\* C3: a Cloned wrapper made by get_albums holds, and renders as, the records
\* the User held when it was made, in every later state: whatever happens to
\* the User afterwards (consumed by into_album, dropped, its Vec freed) does
\* not change the clone; and as long as the User is live its records are the
\* ones it started with, whatever happens to the clones (dropped, their Vec
\* freed).
C3_ClonedIndependence ==
    /\ \A c \in LiveColls :
          colls[c].kind = "Cloned" =>
              /\ heap[colls[c].vec] = LiveVec(colls[c].src)
              /\ Rendered(c).out = Rendering(colls[c].src)
              /\ Rendered(c) = AlbumsFmt(colls[c].src, Formatter({})).f
    /\ user.st = "live" => heap[UserVec] = LiveVec(input)

\* a clone of two records is live after its source was consumed by into_album
\* and the Vec it held was freed
C3_Witness ==
    /\ user.st = "moved" /\ heap[UserVec].st = "freed"
    /\ \E c \in LiveColls :
          /\ colls[c].kind = "Cloned"
          /\ Len(Inner(c)) >= 2
          /\ Rendered(c).out = Rendering(input)

\* into_album has been called on the User: a wrapper took the User's Vec (in
\* ownership-problem.rs main, the statement at line 59 has run)
IntoAlbumInvoked ==
    \/ \E c \in CollIds : colls[c].kind = "Owned" /\ colls[c].vec = UserVec
    \/ prog = "ownership-problem" /\ pc \in { 60, 0 }

\* C4: into_album can be called at most once on a User, and once it has been
\* called no accessor (into_album, get_albums, borrow_albums), field read
\* (daniel.name in the header) or drop reaches the records through the User;
\* the Owned wrapper it returned is the only holder of the Vec.
C4_ConsumedOwnerIsInaccessible ==
    IntoAlbumInvoked =>
        /\ user.st = "moved"
        /\ ~ ENABLED (\E c \in CollIds : IntoAlbum(c))
        /\ ~ ENABLED (\E c \in CollIds : GetAlbums(c))
        /\ ~ ENABLED (\E c \in CollIds : BorrowAlbums(c))
        /\ ~ ENABLED DropUser
        /\ ~ ENABLED PrintHeader
        /\ ~ ENABLED OwnershipPrintCloned
        /\ ~ ENABLED OwnershipPrintInto
        /\ \A c \in LiveColls : colls[c].vec = UserVec => colls[c].kind = "Owned"
        /\ Cardinality({ c \in LiveColls : colls[c].vec = UserVec }) <= 1
        /\ heap[UserVec].st = "live" =>
              Cardinality({ c \in LiveColls : colls[c].vec = UserVec }) = 1

\* the User was consumed, the Owned wrapper is live, and the client could
\* still make wrappers
C4_Witness ==
    /\ prog = "client" /\ IntoAlbumInvoked
    /\ FreeColls # {}
    /\ \E c \in LiveColls : colls[c].kind = "Owned" /\ colls[c].vec = UserVec

\* C5: on a live User, borrow_albums and get_albums can be called whenever the
\* program may make another wrapper, in any order, and each call leaves the
\* User's name and records (the same records in the same order) as they were.
C5_ReadAccessorsLeaveOwnerUnchanged ==
    /\ []((prog = "client" /\ user.st = "live" /\ FreeColls # {}) =>
             /\ ENABLED (\E c \in CollIds : BorrowAlbums(c))
             /\ ENABLED (\E c \in CollIds : GetAlbums(c)))
    /\ [][((\E c \in CollIds : BorrowAlbums(c)) \/ (\E c \in CollIds : GetAlbums(c))) =>
             /\ user' = user
             /\ heap'[UserVec] = heap[UserVec]
             /\ heap[UserVec] = LiveVec(input)]_vars

\* borrow_albums and then get_albums were called on a User that is still
\* live and holds two records
C5_Witness ==
    /\ user.st = "live" /\ Len(UserData) >= 2
    /\ colls[1].kind = "Borrowed" /\ colls[2].kind = "Cloned"

\* C6: the Vec operations called on a Transparent wrapper over S give what
\* they give on S: len, is_empty, [i] for every index i of S, and iter() visits
\* the records of S in order.
C6_TransparentDelegation ==
    last.op = "deref" =>
        LET S == colls[last.coll].src
        IN  /\ last.len = Len(S)
            /\ last.is_empty = (S = <<>>)
            /\ DOMAIN last.at = 0..(Len(S) - 1)
            /\ \A i \in 0..(Len(S) - 1) : last.at[i] = S[i + 1]
            /\ last.iter = S

\* the Vec operations were called on a Transparent wrapper over two different
\* records
C6_Witness ==
    /\ last.op = "deref" /\ last.len >= 2
    /\ last.at[0] # last.at[1]

\* C7: a Vec has at most one holder among the Owned and Transparent wrappers
\* and the User; any number of Borrowed wrappers may be live, each referring to
\* the Vec of a live User that still holds it; every live wrapper refers to a
\* live Vec.
C7_OwnershipInvariant ==
    /\ \A v \in VecIds :
          Cardinality({ c \in LiveColls : colls[c].kind \in { "Owned", "Transparent" }
                                          /\ colls[c].vec = v })
            + (IF user.st = "live" /\ user.albums.tag = "Vec" /\ UserVec = v THEN 1 ELSE 0)
          <= 1
    /\ \A c \in LiveColls :
          colls[c].kind = "Borrowed" =>
              /\ user.st = "live"
              /\ colls[c].vec = UserVec
              /\ heap[colls[c].vec].st = "live"
    /\ \A c \in LiveColls : heap[colls[c].vec].st = "live"

\* two Borrowed wrappers of the same live User's Vec are live at once
C7_Witness ==
    /\ user.st = "live"
    /\ \E c \in LiveColls : \E d \in LiveColls :
          /\ c # d
          /\ colls[c].kind = "Borrowed" /\ colls[d].kind = "Borrowed"
          /\ colls[c].vec = colls[d].vec

(***************************************************************************)
(* The lines the scenario is said to print, written out.                   *)
(***************************************************************************)
ExpectedHeader ==
    <<"D", "a", "n", "i", "e", "l", "'", "s", " ", "a", "l", "b", "u", "m", "s", ":">>

ExpectedLine1 ==
    <<"S", "g", "t", ".", " ", "P", "e", "p", "p", "e", "r", "'", "s", " ", "L", "o",
      "n", "e", "l", "y", " ", "H", "e", "a", "r", "t", "s", " ", "C", "l", "u", "b",
      " ", "B", "a", "n", "d", " ", "(", "T", "h", "e", " ", "B", "e", "a", "t", "l",
      "e", "s", ")">>

ExpectedLine2 ==
    <<"D", "a", "r", "k", " ", "S", "i", "d", "e", " ", "o", "f", " ", "t", "h", "e",
      " ", "M", "o", "o", "n", " ", "(", "P", "i", "n", "k", " ", "F", "l", "o", "y",
      "d", ")">>

ExpectedUpper1 ==
    <<"S", "G", "T", ".", " ", "P", "E", "P", "P", "E", "R", "'", "S", " ", "L", "O",
      "N", "E", "L", "Y", " ", "H", "E", "A", "R", "T", "S", " ", "C", "L", "U", "B",
      " ", "B", "A", "N", "D">>

ExpectedUpper2 ==
    <<"D", "A", "R", "K", " ", "S", "I", "D", "E", " ", "O", "F", " ", "T", "H", "E",
      " ", "M", "O", "O", "N">>

EmptyLine == <<>>

\* the characters of a sequence of lines, each followed by a line terminator
RECURSIVE Lines(_)
Lines(ls) == IF ls = <<>> THEN <<>> ELSE Head(ls) \o <<NL>> \o Lines(Tail(ls))

\* main has returned
Returned(p) == prog = p /\ pc = 0

\* C8, as first stated: standard output holds the header, then one line per
\* record, then (dereferencing only) the upper-cased titles, with nothing else
\* between them.  (What follows the last of these lines is not between them:
\* a line terminator after the last record line of referencing.rs is let pass.)
C8_OutputWithNothingBetween ==
    /\ Returned("referencing") =>
          \/ stdout = Lines(<<ExpectedHeader, ExpectedLine1, ExpectedLine2>>)
          \/ stdout = Lines(<<ExpectedHeader, ExpectedLine1, ExpectedLine2, EmptyLine>>)
    /\ Returned("dereferencing") =>
          stdout = Lines(<<ExpectedHeader, ExpectedLine1, ExpectedLine2,
                           ExpectedUpper1, ExpectedUpper2>>)

\* C8, amended: standard output holds the header, then one line per record,
\* then one empty line (println! ends the rendering, whose last record already
\* ends in a line terminator, with another one), then (dereferencing only) the
\* upper-cased titles, one per line in record order; ownership-problem.rs
\* prints the header, the two record lines and the empty line twice.
C8_OutputWithEmptyLine ==
    /\ Returned("referencing") =>
          stdout = Lines(<<ExpectedHeader, ExpectedLine1, ExpectedLine2, EmptyLine>>)
    /\ Returned("dereferencing") =>
          stdout = Lines(<<ExpectedHeader, ExpectedLine1, ExpectedLine2, EmptyLine,
                           ExpectedUpper1, ExpectedUpper2>>)
    /\ Returned("ownership-problem") =>
          stdout = Lines(<<ExpectedHeader, ExpectedLine1, ExpectedLine2, EmptyLine,
                           ExpectedHeader, ExpectedLine1, ExpectedLine2, EmptyLine>>)

\* the main of dereferencing.rs has printed everything and returned
C8_Witness == Returned("dereferencing") /\ Len(stdout) > Len(ExpectedHeader)

\* C9: formatting the same Borrowed or Cloned wrapper twice in a row, into
\* writers that behave alike, gives the same output and the same result both
\* times, and the wrapper still holds the records it was made from.
C9_RenderTwiceSameOutput ==
    (last.op = "fmt" /\ colls[last.coll].kind \in { "Borrowed", "Cloned" }) =>
        /\ last.n >= 2 => (last.out = last.prevOut /\ last.res = last.prevRes)
        /\ Inner(last.coll) = colls[last.coll].src
        /\ colls[last.coll].st = "live"

\* a Borrowed wrapper over two records was formatted twice in a row
C9_Witness ==
    /\ last.op = "fmt" /\ last.n = 2 /\ last.fails = {}
    /\ colls[last.coll].kind = "Borrowed"
    /\ Len(colls[last.coll].src) >= 2
    /\ last.out = Rendering(colls[last.coll].src)

\* the number of leading records of S whose writes all come before call k
CompleteBefore(S, k) ==
    CHOOSE j \in 0..Len(S) :
        /\ AlbumsFmt(SubSeq(S, 1, j), Formatter({})).f.calls <= k
        /\ \A i \in (j + 1)..Len(S) :
              AlbumsFmt(SubSeq(S, 1, i), Formatter({})).f.calls > k

\* C10: when the writer fails at a write made for record number j + 1, fmt
\* returns Err, makes no write call after the failing one (the records after
\* it are visited by the fold and not written), and the writer keeps the lines
\* of the j records before it, with at most a part of the failing record after
\* them; when no write fails, fmt returns Ok with every record written.
C10_FirstErrorStopsWrites ==
    last.op = "fmt" =>
        LET S == colls[last.coll].src
        IN  /\ last.visited = Len(S)
            /\ last.fails = {} => (last.res = "Ok" /\ last.out = Rendering(S))
            /\ \A k \in last.fails :
                  LET j == CompleteBefore(S, k)
                  IN  /\ last.res = "Err"
                      /\ last.calls = k + 1
                      /\ j < Len(S)
                      /\ IsPrefix(Rendering(SubSeq(S, 1, j)), last.out)
                      /\ IsPrefix(last.out, Rendering(SubSeq(S, 1, j + 1)))
                      /\ last.out # Rendering(SubSeq(S, 1, j + 1))

\* the writer failed inside the second of three records: the first line was
\* written and kept, part of the second record too, the third was not written
C10_Witness ==
    /\ last.op = "fmt" /\ last.res = "Err"
    /\ Len(colls[last.coll].src) = 3
    /\ \E k \in last.fails : CompleteBefore(colls[last.coll].src, k) = 1
    /\ Len(last.out) > Len(Rendering(SubSeq(colls[last.coll].src, 1, 1)))

====
